---- MODULE Spec2Model ----
(***************************************************************************)
(* Model of autogluon/core/utils/mo_hbo_utils.py: retrieve_pareto_front,   *)
(* prepare_sign_vector and uniform_from_unit_simplex.                      *)
(*                                                                         *)
(* Objective values are integers: the functions only compare, negate and   *)
(* copy them, so any totally ordered numbers behave alike (NaN is not a    *)
(* numeric value of the data model).  The floats of the simplex sampler    *)
(* are exact fractions, plus the IEEE results nan and inf of a division    *)
(* by zero.  A numpy array is its shape together with its rows.            *)
(***************************************************************************)
EXTENDS Integers, Sequences, FiniteSets, TLC

\* ---------------------------------------------------------------- bounds
\* evaluated points of the one-task histories drawn for the dominance runs
MaxPoints == 3
\* objective values of those histories are 0..MaxVal
MaxVal == 1
\* evaluated points of the histories of several tasks, drawn with every
\* objective spec
MaxKeyPoints == 2
\* dimensions 1..MaxDim of the simplex sampler
MaxDim == 3
\* a uniform draw is one of 0/Grid, 1/Grid, ..., (Grid-1)/Grid
Grid == 3

VARIABLES
    call,              \* the function being run
    objectives,        \* dict name -> direction, as its items in iteration order
    training_history,  \* dict task_id -> list of result dicts, as its items in order
    pc,                \* position in the function's body
    vals,              \* np.array(vals): [shape, rows]
    refs,              \* list of (task_id, step + 1)
    sign_vector,       \* result of prepare_sign_vector
    a_vals,            \* vals * (-sign_vector): [shape, rows]
    eff_mask,          \* boolean mask over the points
    i,                 \* index of the masking loop (1-based here)
    indices,           \* indices of the points kept
    front,             \* the list of records built
    ret,               \* "running", "returned" or the exception raised
    dim,               \* argument of uniform_from_unit_simplex
    uni,               \* the draws (numerators over Grid)
    sample             \* the sample (floats)

vars == <<call, objectives, training_history, pc, vals, refs, sign_vector,
          a_vals, eff_mask, i, indices, front, ret, dim, uni, sample>>

\* ------------------------------------------------------------ input sets
TaskIds == {"t1", "t2"}
ObjNames == {"acc", "latency", "task_id-ressource"}
Directions == {"MIN", "MAX", "min"}

RECURSIVE SumLens(_, _)
SumLens(lens, n) == IF n = 0 THEN 0 ELSE lens[n] + SumLens(lens, n - 1)

Injective(s) == \A a, b \in DOMAIN s : s[a] = s[b] => a = b

\* the orders in which a dict can hold some of the keys K, at most n of them
KeyOrders(K, n) ==
    {s \in UNION {[1..m -> K] : m \in 0..n} : Injective(s)}

Names(objs) == {objs[k].name : k \in DOMAIN objs}

\* the dict whose keys are order[1], order[2], ... with directions dirs
ObjectiveDict(order, dirs) ==
    [k \in DOMAIN order |-> [name |-> order[k], dir |-> dirs[k]]]

\* the history whose tasks are order[1], ... holding lens[1], ... results,
\* cut from the list of result dicts flat
HistoryFrom(order, lens, flat) ==
    [t \in DOMAIN order |->
        [task_id |-> order[t],
         results |-> [s \in 1..lens[t] |-> flat[SumLens(lens, t - 1) + s]]]]

\* the orders in which a history can hold some of the tasks T
TaskOrders(T) == KeyOrders(T, Cardinality(T))
\* how many results each task holds, at most maxPoints together
ResultCounts(order, maxPoints) ==
    {l \in [DOMAIN order -> 0..maxPoints] : SumLens(l, Len(order)) <= maxPoints}

\* h is a history whose tasks are in orders, of at most maxPoints result dicts
\* over the keys K and values V
IsHistory(h, orders, K, V, maxPoints) ==
    \E order \in orders :
        \E lens \in ResultCounts(order, maxPoints) :
            \E flat \in [1..SumLens(lens, Len(order)) -> [K -> V]] :
                h = HistoryFrom(order, lens, flat)

\* every objective spec over ObjNames with at most two objectives
AllObjectiveDicts ==
    UNION {{ObjectiveDict(order, dirs) : dirs \in [DOMAIN order -> Directions]} :
           order \in KeyOrders(ObjNames, 2)}

\* specs with valid directions, for the dominance runs
DominanceObjectiveDicts ==
    {ObjectiveDict(order, dirs) :
        order \in {<<"acc">>, <<"acc", "latency">>},
        dirs \in [1..2 -> {"MIN", "MAX"}]}

\* the example of the specification, accuracies in hundredths
ExampleObjectives ==
    <<[name |-> "acc", dir |-> "MAX"], [name |-> "latency", dir |-> "MIN"]>>
ExampleHistory ==
    <<[task_id |-> "t1",
       results |-> <<[acc |-> 90, latency |-> 10], [acc |-> 80, latency |-> 5]>>],
      [task_id |-> "t2",
       results |-> <<[acc |-> 95, latency |-> 20]>>]>>

\* ----------------------------------------------------------------- numpy
\* np.array(list of rows): an empty list gives shape (0,), n rows of k give (n, k)
NpArray(rows) ==
    [shape |-> IF Len(rows) = 0 THEN <<0>> ELSE <<Len(rows), Len(rows[1])>>,
     rows |-> rows]

\* broadcasting of the last axis of an array against a vector of length k
Broadcastable(shape, k) ==
    LET last == shape[Len(shape)] IN last = k \/ last = 1 \/ k = 1

\* -sign_vector
NpNegateMissingMutant(vec) == vec
NpNegate(vec) == [k \in DOMAIN vec |-> -vec[k]]

\* arr * vec, for a broadcastable pair as retrieve_pareto_front has them:
\* an array of shape (0,), or one row per point with one column per entry
NpMultiply(arr, vec) ==
    [shape |-> arr.shape,
     rows |-> [r \in DOMAIN arr.rows |->
                  [k \in DOMAIN arr.rows[r] |-> arr.rows[r][k] * vec[k]]]]

\* np.ones(n, dtype=bool)
NpOnes(n) == [j \in 1..n |-> TRUE]

\* ---------------------------------------------------- prepare_sign_vector
converter == [d \in {"MIN", "MAX"} |-> IF d = "MIN" THEN -1 ELSE 1]

\* converter[objectives[k]]: the sign looked up, or the KeyError of a missing key
Looked(sign) == [keyError |-> FALSE, sign |-> sign]
KeyError == [keyError |-> TRUE, sign |-> 0]

ConvertDefaultMutant(d) ==
    IF d \in DOMAIN converter THEN Looked(converter[d]) ELSE Looked(1)
Convert(d) == IF d \in DOMAIN converter THEN Looked(converter[d]) ELSE KeyError

\* the list comprehension inside try/except: the first KeyError ends it and
\* ValueError is raised, nothing is returned
prepare_sign_vector(objs) ==
    IF \E k \in DOMAIN objs : Convert(objs[k].dir).keyError
    THEN [raised |-> "ValueError_objective_dict", value |-> <<>>]
    ELSE [raised |-> "", value |-> [k \in DOMAIN objs |-> Convert(objs[k].dir).sign]]

\* -------------------------------------------------- retrieve_pareto_front
\* [res_dict[k] for k in objectives]
RowOf(res_dict, objs) == [k \in DOMAIN objs |-> res_dict[objs[k].name]]

RECURSIVE FlattenVals(_, _, _)
FlattenVals(history, objs, t) ==
    IF t > Len(history) THEN <<>>
    ELSE [s \in DOMAIN history[t].results |-> RowOf(history[t].results[s], objs)]
         \o FlattenVals(history, objs, t + 1)

\* enumerate() counts from 0 and the reference holds step + 1
StepRef(task_id, step) == <<task_id, step + 1>>

RECURSIVE FlattenRefs(_, _)
FlattenRefs(history, t) ==
    IF t > Len(history) THEN <<>>
    ELSE [s \in DOMAIN history[t].results |-> StepRef(history[t].task_id, s - 1)]
         \o FlattenRefs(history, t + 1)

\* np.any(p <= c): p is no worse than c in some objective
SurvivesAllMutant(p, c) == \A k \in DOMAIN p : p[k] <= c[k]
Survives(p, c) == \E k \in DOMAIN p : p[k] <= c[k]

\* one iteration of the masking loop, lines 41-43
MaskStepForwardMutant(mask, rows, n) ==
    IF mask[n]
    THEN [j \in DOMAIN mask |->
            IF mask[j] /\ j > n THEN Survives(rows[j], rows[n]) ELSE mask[j]]
    ELSE mask
MaskStepRecomputeMutant(mask, rows, n) ==
    IF mask[n]
    THEN [j \in DOMAIN mask |-> Survives(rows[j], rows[n])]
    ELSE mask
MaskStep(mask, rows, n) ==
    IF mask[n]
    THEN [j \in DOMAIN mask |->
            IF mask[j] THEN Survives(rows[j], rows[n]) ELSE mask[j]]
    ELSE mask

\* the whole loop of lines 41-43, from iteration n on
RECURSIVE MaskLoop(_, _, _)
MaskLoop(mask, rows, n) ==
    IF n > Len(rows) THEN mask
    ELSE MaskLoop(MaskStep(mask, rows, n), rows, n + 1)

\* [i for i, b in enumerate(eff_mask) if b]
RECURSIVE IndicesFrom(_, _)
IndicesFrom(mask, n) ==
    IF n > Len(mask) THEN <<>>
    ELSE (IF mask[n] THEN <<n>> ELSE <<>>) \o IndicesFrom(mask, n + 1)

\* a dict as its items in insertion order; d[key] = value
DictHas(d, key) == \E k \in DOMAIN d : d[k][1] = key
DictSet(d, key, value) ==
    IF DictHas(d, key)
    THEN [k \in DOMAIN d |-> IF d[k][1] = key THEN <<key, value>> ELSE d[k]]
    ELSE Append(d, <<key, value>>)
DictGet(d, key) == d[CHOOSE k \in DOMAIN d : d[k][1] = key][2]
DictKeys(d) == {d[k][1] : k \in DOMAIN d}

\* the values stored in a record: a reference or an objective value
RefValue(ref) == [kind |-> "ref", task_id |-> ref[1], step |-> ref[2], num |-> 0]
NumValue(x) == [kind |-> "num", task_id |-> "", step |-> 0, num |-> x]

\* lines 48-50: the record of point e
RECURSIVE RecordFrom(_, _, _, _)
RecordFrom(r, row, objs, k) ==
    IF k > Len(objs) THEN r
    ELSE RecordFrom(DictSet(r, objs[k].name, NumValue(row[k])), row, objs, k + 1)

RecordOf(ref, row, objs) ==
    RecordFrom(<<<<"task_id-ressource", RefValue(ref)>>>>, row, objs, 1)

\* ----------------------------------------------- uniform_from_unit_simplex
\* the 1e-6 of the self-check, as 1 / Tolerance
Tolerance == 1000000

Fin(n, d) == [kind |-> "fin", num |-> n, den |-> d]
NaN == [kind |-> "nan", num |-> 0, den |-> 1]
Inf == [kind |-> "inf", num |-> 0, den |-> 1]

\* a / b of two non-negative draws: 0/0 is nan and a/0 is inf, with a warning only
FloatDiv(a, b) ==
    IF b = 0 THEN (IF a = 0 THEN NaN ELSE Inf) ELSE Fin(a, b)

FloatAdd(x, y) ==
    IF x.kind = "nan" \/ y.kind = "nan" THEN NaN
    ELSE IF x.kind = "inf" \/ y.kind = "inf" THEN Inf
    ELSE Fin(x.num * y.den + y.num * x.den, x.den * y.den)

\* x - 1 < 1e-6; a comparison with nan is False
SelfCheck(x) ==
    /\ x.kind = "fin"
    /\ (x.num - x.den) * Tolerance < x.den

\* np.sort
RECURSIVE Insert(_, _)
Insert(x, s) ==
    IF s = <<>> THEN <<x>>
    ELSE IF x <= Head(s) THEN <<x>> \o s
    ELSE <<Head(s)>> \o Insert(x, Tail(s))

RECURSIVE NpSort(_)
NpSort(s) == IF s = <<>> THEN <<>> ELSE Insert(Head(s), NpSort(Tail(s)))

\* np.diff(uni, prepend=0) / uni[-1]
DiffNormalize(u) ==
    [k \in DOMAIN u |-> FloatDiv(u[k] - (IF k = 1 THEN 0 ELSE u[k - 1]), u[Len(u)])]

\* sum(sample), from the integer 0
RECURSIVE SumFrom(_, _)
SumFrom(s, n) == IF n = 0 THEN Fin(0, 1) ELSE FloatAdd(SumFrom(s, n - 1), s[n])

\* ------------------------------------------------------------------ Init
NoArray == [shape |-> <<0>>, rows |-> <<>>]

Locals ==
    /\ vals = NoArray
    /\ refs = <<>>
    /\ sign_vector = <<>>
    /\ a_vals = NoArray
    /\ eff_mask = <<>>
    /\ i = 0
    /\ indices = <<>>
    /\ front = <<>>
    /\ ret = "running"
    /\ uni = <<>>
    /\ sample = <<>>

InitFront ==
    /\ call = "retrieve_pareto_front"
    /\ pc = "flatten"
    /\ dim = 0
    /\ \/ \* one task of up to MaxPoints results, valid directions
          /\ objectives \in DominanceObjectiveDicts
          /\ IsHistory(training_history, {<<"t1">>}, Names(objectives),
                       0..MaxVal, MaxPoints)
       \/ \* any tasks of up to MaxKeyPoints results, any objective spec
          /\ objectives \in AllObjectiveDicts
          /\ IsHistory(training_history, TaskOrders(TaskIds), Names(objectives),
                       0..1, MaxKeyPoints)
       \/ \* the example of the specification
          /\ objectives = ExampleObjectives
          /\ training_history = ExampleHistory

InitSign ==
    /\ call = "prepare_sign_vector"
    /\ pc = "sign"
    /\ dim = 0
    /\ objectives \in AllObjectiveDicts
    /\ training_history = <<>>

InitSimplex ==
    /\ call = "uniform_from_unit_simplex"
    /\ pc = "draw"
    /\ dim \in 1..MaxDim
    /\ objectives = <<>>
    /\ training_history = <<>>

Init == Locals /\ (InitFront \/ InitSign \/ InitSimplex)

\* --------------------------------------------------------------- actions
\* lines 27-34
Flatten ==
    /\ pc = "flatten"
    /\ vals' = NpArray(FlattenVals(training_history, objectives, 1))
    /\ refs' = FlattenRefs(training_history, 1)
    /\ pc' = "sign"
    /\ UNCHANGED <<call, objectives, training_history, sign_vector, a_vals,
                   eff_mask, i, indices, front, ret, dim, uni, sample>>

\* line 38, or a call of prepare_sign_vector itself
PrepareSignVector ==
    /\ pc = "sign"
    /\ LET r == prepare_sign_vector(objectives) IN
         IF r.raised # ""
         THEN /\ ret' = r.raised
              /\ pc' = "done"
              /\ UNCHANGED sign_vector
         ELSE /\ sign_vector' = r.value
              /\ IF call = "prepare_sign_vector"
                 THEN ret' = "returned" /\ pc' = "done"
                 ELSE ret' = ret /\ pc' = "transform"
    /\ UNCHANGED <<call, objectives, training_history, vals, refs, a_vals,
                   eff_mask, i, indices, front, dim, uni, sample>>

\* lines 39-40
Transform ==
    /\ pc = "transform"
    /\ IF Broadcastable(vals.shape, Len(sign_vector))
       THEN /\ a_vals' = NpMultiply(vals, NpNegate(sign_vector))
            /\ eff_mask' = NpOnes(vals.shape[1])
            /\ i' = 1
            /\ pc' = "loop"
            /\ ret' = ret
       ELSE /\ ret' = "ValueError_broadcast"
            /\ pc' = "done"
            /\ UNCHANGED <<a_vals, eff_mask, i>>
    /\ UNCHANGED <<call, objectives, training_history, vals, refs, sign_vector,
                   indices, front, dim, uni, sample>>

\* lines 41-43, one iteration
LoopStep ==
    /\ pc = "loop"
    /\ i <= Len(a_vals.rows)
    /\ eff_mask' = MaskStep(eff_mask, a_vals.rows, i)
    /\ i' = i + 1
    /\ UNCHANGED <<call, objectives, training_history, pc, vals, refs,
                   sign_vector, a_vals, indices, front, ret, dim, uni, sample>>

\* lines 44-52
Emit ==
    /\ pc = "loop"
    /\ i > Len(a_vals.rows)
    /\ indices' = IndicesFrom(eff_mask, 1)
    /\ front' = [j \in DOMAIN indices' |->
                    RecordOf(refs[indices'[j]], vals.rows[indices'[j]], objectives)]
    /\ ret' = "returned"
    /\ pc' = "done"
    /\ UNCHANGED <<call, objectives, training_history, vals, refs, sign_vector,
                   a_vals, eff_mask, i, dim, uni, sample>>

\* line 97
Draw ==
    /\ pc = "draw"
    /\ uni' \in [1..dim -> 0..(Grid - 1)]
    /\ pc' = "sort"
    /\ UNCHANGED <<call, objectives, training_history, vals, refs, sign_vector,
                   a_vals, eff_mask, i, indices, front, ret, dim, sample>>

\* line 98
Sort ==
    /\ pc = "sort"
    /\ uni' = NpSort(uni)
    /\ pc' = "normalize"
    /\ UNCHANGED <<call, objectives, training_history, vals, refs, sign_vector,
                   a_vals, eff_mask, i, indices, front, ret, dim, sample>>

\* line 99
Normalize ==
    /\ pc = "normalize"
    /\ sample' = DiffNormalize(uni)
    /\ pc' = "check"
    /\ UNCHANGED <<call, objectives, training_history, vals, refs, sign_vector,
                   a_vals, eff_mask, i, indices, front, ret, dim, uni>>

\* lines 100-101
CheckAndReturn ==
    /\ pc = "check"
    /\ ret' = IF SelfCheck(SumFrom(sample, Len(sample)))
              THEN "returned" ELSE "AssertionError"
    /\ pc' = "done"
    /\ UNCHANGED <<call, objectives, training_history, vals, refs, sign_vector,
                   a_vals, eff_mask, i, indices, front, dim, uni, sample>>

Next ==
    \/ Flatten
    \/ PrepareSignVector
    \/ Transform
    \/ LoopStep
    \/ Emit
    \/ Draw
    \/ Sort
    \/ Normalize
    \/ CheckAndReturn

Spec == Init /\ [][Next]_vars

\* ------------------------------------------------------- claim vocabulary
RetrieveDone == call = "retrieve_pareto_front" /\ pc = "done"
Returned == RetrieveDone /\ ret = "returned"
ValidDirections == \A k \in DOMAIN objectives : objectives[k].dir \in {"MIN", "MAX"}

\* the evaluated points of the history: (position of the task, step)
Points ==
    UNION {{<<t, s>> : s \in DOMAIN training_history[t].results} :
           t \in DOMAIN training_history}
RefOfPoint(P) == <<training_history[P[1]].task_id, P[2]>>
ValueAt(P, k) == training_history[P[1]].results[P[2]][objectives[k].name]

NoWorse(k, x, y) == IF objectives[k].dir = "MAX" THEN x >= y ELSE x <= y
StrictlyBetter(k, x, y) == IF objectives[k].dir = "MAX" THEN x > y ELSE x < y

\* A dominates B: no worse in every objective, strictly better in one
Dominates(A, B) ==
    /\ \A k \in DOMAIN objectives : NoWorse(k, ValueAt(A, k), ValueAt(B, k))
    /\ \E k \in DOMAIN objectives : StrictlyBetter(k, ValueAt(A, k), ValueAt(B, k))

SameVector(A, B) == \A k \in DOMAIN objectives : ValueAt(A, k) = ValueAt(B, k)

\* the front holds the record built for point P
InFront(P) == \E j \in DOMAIN front : refs[indices[j]] = RefOfPoint(P)

Range(s) == {s[j] : j \in DOMAIN s}

\* C1: with at least one objective and valid directions, no point of the
\* returned front is dominated by another evaluated point.
C1_NoDominatedPointInFront ==
    (RetrieveDone /\ ValidDirections /\ Len(objectives) >= 1) =>
        \A A \in Points : \A B \in Points : Dominates(A, B) => ~InFront(B)

\* C2: with at least one objective and valid directions, every evaluated point
\* that no other point dominates is in the returned front; a single point is
\* returned, and the example of the specification returns its three points.
C2_NonDominatedPointsInFront ==
    (RetrieveDone /\ ValidDirections /\ Len(objectives) >= 1) =>
        /\ \A B \in Points :
              (\A A \in Points : ~Dominates(A, B)) => (Returned /\ InFront(B))
        /\ Cardinality(Points) = 1 => Len(front) = 1
        /\ (training_history = ExampleHistory /\ objectives = ExampleObjectives)
              => Len(front) = 3

C2_Witness ==
    /\ Returned
    /\ training_history = ExampleHistory
    /\ objectives = ExampleObjectives
    /\ \A P \in Points : InFront(P)

\* C3: two points with identical objective vectors are both in the front or
\* both out of it, and a history of identical points only returns them all.
C3_IdenticalPointsTreatedAlike ==
    Returned =>
        /\ \A A \in Points : \A B \in Points :
              SameVector(A, B) => (InFront(A) <=> InFront(B))
        /\ (\A A \in Points : \A B \in Points : SameVector(A, B))
              => \A A \in Points : InFront(A)

\* C4: with valid directions and any number of objectives, a history without
\* evaluated points returns the empty front and does not fail.
C4_EmptyHistoryEmptyFront ==
    (RetrieveDone /\ ValidDirections /\ Points = {}) =>
        (ret = "returned" /\ front = <<>>)

\* C5: every record of a returned front holds under "task_id-ressource" a
\* reference (task_id, step) of the history, under every objective its original
\* value at that step, no other key, and no reference is in two records.
C5_RecordsHoldReferenceAndOriginalValues ==
    Returned =>
        /\ \A j \in DOMAIN front :
              /\ DictKeys(front[j]) = {"task_id-ressource"} \cup Names(objectives)
              /\ DictGet(front[j], "task_id-ressource").kind = "ref"
              /\ \E P \in Points :
                    /\ DictGet(front[j], "task_id-ressource") = RefValue(RefOfPoint(P))
                    /\ \A k \in DOMAIN objectives :
                          DictGet(front[j], objectives[k].name) = NumValue(ValueAt(P, k))
        /\ \A j \in DOMAIN front : \A m \in DOMAIN front :
              DictGet(front[j], "task_id-ressource")
                  = DictGet(front[m], "task_id-ressource") => j = m

\* C6: with a direction that is neither "MIN" nor "MAX", prepare_sign_vector
\* and retrieve_pareto_front end with the ValueError of the objective dict; no
\* sign vector and no front is ever produced.
C6_InvalidDirectionRaises ==
    ~ValidDirections =>
        /\ sign_vector = <<>>
        /\ front = <<>>
        /\ ret \in {"running", "ValueError_objective_dict"}
        /\ pc = "done" => ret = "ValueError_objective_dict"

C6_Witness ==
    /\ RetrieveDone
    /\ Points # {}
    /\ Len(objectives) = 2
    /\ objectives[1].dir = "MAX"
    /\ objectives[2].dir = "min"
    /\ ret = "ValueError_objective_dict"

\* the flattened point r of the history, by its reference
PointOfRef(r) ==
    CHOOSE P \in Points : RefOfPoint(P) = refs[r]

\* C7: with valid directions the sign vector has one entry per objective, -1
\* for "MIN" and +1 for "MAX" in the order of the spec, and the values compared
\* are the original value of a MIN objective and the negated one of a MAX one.
C7_SignVectorAndComparedValues ==
    ValidDirections =>
        /\ (pc \in {"transform", "loop"} \/ (pc = "done" /\ ret = "returned")) =>
              /\ Len(sign_vector) = Len(objectives)
              /\ \A k \in DOMAIN objectives :
                    sign_vector[k] = IF objectives[k].dir = "MIN" THEN -1 ELSE 1
        /\ (call = "retrieve_pareto_front" /\ pc = "loop") =>
              /\ Len(a_vals.rows) = Cardinality(Points)
              /\ \A r \in DOMAIN a_vals.rows : \A k \in DOMAIN objectives :
                    a_vals.rows[r][k] =
                        IF objectives[k].dir = "MIN"
                        THEN ValueAt(PointOfRef(r), k)
                        ELSE -ValueAt(PointOfRef(r), k)

C7_Witness ==
    /\ call = "retrieve_pareto_front"
    /\ pc = "loop"
    /\ Len(objectives) = 2
    /\ objectives[1].dir = "MIN"
    /\ objectives[2].dir = "MAX"
    /\ \E r \in DOMAIN a_vals.rows : a_vals.rows[r][1] > 0 /\ a_vals.rows[r][2] < 0

\* |x - 1| > 1e-6, a comparison with nan being False
Deviates(x) ==
    /\ x.kind = "fin"
    /\ \/ (x.num - x.den) * Tolerance > x.den
       \/ (x.den - x.num) * Tolerance > x.den

\* C8: for every dimension and every outcome of the draws the sampler returns
\* a vector of dim entries >= 0 whose sum is within 1e-6 of 1, [1.0] for
\* dim = 1, and the self-check fails exactly when the sum deviates by more.
C8_SimplexSampleReturned ==
    (call = "uniform_from_unit_simplex" /\ pc = "done") =>
        /\ ret = "returned"
        /\ Len(sample) = dim
        /\ \A k \in DOMAIN sample : sample[k].kind = "fin" /\ sample[k].num >= 0
        /\ ~Deviates(SumFrom(sample, Len(sample)))
        /\ SumFrom(sample, Len(sample)).kind = "fin"
        /\ dim = 1 => (sample[1].kind = "fin" /\ sample[1].num = sample[1].den)
        /\ ret = "AssertionError" <=> Deviates(SumFrom(sample, Len(sample)))

\* the points kept when the flattened points are processed in the order perm
KeptInOrder(perm) ==
    LET n == Len(a_vals.rows)
        rows == [j \in 1..n |-> a_vals.rows[perm[j]]]
        mask == MaskLoop(NpOnes(n), rows, 1)
    IN {perm[j] : j \in {m \in 1..n : mask[m]}}

\* C9: the set of points kept, and of records returned, is the same for every
\* order in which the points are processed; the records follow the flattening
\* order.
C9_FrontIndependentOfOrder ==
    Returned =>
        /\ \A perm \in Permutations(DOMAIN a_vals.rows) :
              KeptInOrder(perm) = Range(indices)
        /\ Range(front) =
              {RecordOf(refs[e], vals.rows[e], objectives) : e \in Range(indices)}
        /\ \A j \in DOMAIN indices : \A m \in DOMAIN indices :
              j < m => indices[j] < indices[m]

C9_Witness ==
    /\ Returned
    /\ Len(a_vals.rows) = 3
    /\ Len(front) = 2
    /\ 1 \notin Range(indices)

\* one step of the masking loop keeps cleared flags cleared, compares against a
\* point only while its flag is set, and clears only flags of points that are
\* worse than the comparison point in every objective
PruneStep ==
    (pc = "loop" /\ pc' = "loop") =>
        /\ \A j \in DOMAIN eff_mask : ~eff_mask[j] => ~eff_mask'[j]
        /\ ~eff_mask[i] => eff_mask' = eff_mask
        /\ \A j \in DOMAIN eff_mask :
              (eff_mask[j] /\ ~eff_mask'[j]) =>
                  \A k \in DOMAIN a_vals.rows[j] :
                      a_vals.rows[j][k] > a_vals.rows[i][k]

\* the front is the set of points whose flag is set when the loop ends
FrontIsMask ==
    Returned =>
        /\ Range(indices) = {j \in DOMAIN eff_mask : eff_mask[j]}
        /\ Len(indices) = Cardinality(Range(indices))
        /\ Len(front) = Len(indices)
        /\ \A j \in DOMAIN front :
              front[j] = RecordOf(refs[indices[j]], vals.rows[indices[j]], objectives)

\* C10: during the masking loop a cleared flag is never set again, a cleared
\* point is never the comparison point of a later step, a step clears only flags
\* of points not <= the comparison point in any objective, and the front is the
\* set of points whose flag is set when the loop ends.
C10_IncrementalPrune == [][PruneStep]_vars /\ []FrontIsMask

C10_Witness ==
    /\ pc = "loop"
    /\ i \in DOMAIN eff_mask
    /\ ~eff_mask[i]
    /\ \E j \in DOMAIN eff_mask : j > i /\ eff_mask[j]

====
